---------------------------- MODULE Spec2Model ----------------------------
(***************************************************************************)
(* Model of the chain-monitor dashboard client (the page script): the      *)
(* ChainsState matrix with its best heights and sound preferences, and the *)
(* App connection loop with its reconnect back-off.                        *)
(***************************************************************************)
EXTENDS Integers, Sequences, FiniteSets, TLC

(***************************************************************************)
(* Bounds of the exploration.                                              *)
(***************************************************************************)
MaxFrames == 3
MaxToggles == 1
MaxReconnectCount == 1
MaxAttempts == 64
MaxHeight == 2
MaxTs == 2

(***************************************************************************)
(* Program constants.                                                      *)
(***************************************************************************)
MaxReconnectDelayMs == 60000
ReconnectUnitMs == 1000
JitterOffsetMilli == 500

(***************************************************************************)
(* Input alphabets.                                                        *)
(***************************************************************************)
SourceIds == {"A", "B"}
ChainIds == {"X", "Y"}
Hashes == {"h1", "2"}
Heights == 1..MaxHeight
Timestamps == 1..MaxTs
\* Math.random() in [0, 1), in thousandths
RandomMilli == {0, 999}

\* the registries of the init frames: (sources, chains)
SourceA == [id |-> "A"]
SourceB == [id |-> "B"]
ChainX == [id |-> "X", blockTimeSecs |-> 10]
ChainY == [id |-> "Y", blockTimeSecs |-> 600]
InitMsgs == { [type |-> "init", sources |-> <<SourceA, SourceB>>, chains |-> <<ChainX, ChainY>>],
              [type |-> "init", sources |-> <<SourceA, SourceB>>, chains |-> <<ChainX>>],
              [type |-> "init", sources |-> <<SourceA>>, chains |-> <<ChainX, ChainY>>] }

\* the payload of an update frame (the msg object is stored as the cell's chainState)
UpdateMsgs == { m \in [type : {"update"}, source : SourceIds, chain : ChainIds, height : Heights,
                       hash : Hashes, firstSeenTs : Timestamps, lastCheckedTs : Timestamps] :
                  m.firstSeenTs <= m.lastCheckedTs }

undefined == [undefined |-> TRUE]
NaN == -1

\* a field the frame does not carry reads as undefined: for a string field the model holds
\* the text it concatenates to, for the height the number it compares as
MissingString == "undefined"
MissingNumber == NaN

\* update frames that lack one of source, chain, height, hash
MalformedUpdateMsgs ==
  { m \in [type : {"update"}, source : SourceIds \cup {MissingString},
           chain : ChainIds \cup {MissingString}, height : Heights \cup {MissingNumber},
           hash : Hashes \cup {MissingString}, firstSeenTs : {1}, lastCheckedTs : {1}] :
      Cardinality({f \in {"source", "chain", "hash"} : m[f] = MissingString}
                  \cup {f \in {"height"} : m[f] = MissingNumber}) = 1 }

\* the well-formed update frames sent along with the malformed ones
PlainUpdateMsgs == { m \in UpdateMsgs : m.firstSeenTs = 1 /\ m.lastCheckedTs = 1 }

VARIABLES
  connState,       \* where the current socket / reconnect timer stands
  reconnectCount,  \* app.reconnectCount
  reconnectDelay,  \* the delay handed to setTimeout by the last close handler
  appChains,       \* app.chains: undefined or a ChainsState object
  localStorage,    \* window.localStorage entry 'enableSoundFor': NoItem or the saved text
  played,          \* number of playSound() calls made by the last handler
  lastEvent,       \* the event the last handler ran for; a frame is its decoded msg
  prevState,       \* the local prevState of the last ChainsState.update call
  replaced,        \* the app.chains value the last init handler overwrote, or the last reload discarded
  maxSeen,         \* per chain id, the largest height of an update frame since the last init frame
  nFrames,         \* frames received so far
  nToggles,        \* clicks so far
  sockets,         \* WebSocket objects created whose close event has not fired
  timers,          \* setTimeout callbacks scheduled and not yet run
  now,             \* the clock, new Date().getTime(), in ms
  audio,           \* what new Audio('sound1.mp3').play() does at present
  rendered         \* the tables the last handler's redraw() calls drew

vars == <<connState, reconnectCount, reconnectDelay, appChains, localStorage,
          played, lastEvent, prevState, replaced, maxSeen, nFrames, nToggles,
          sockets, timers, now, audio, rendered>>

connVars == <<connState, reconnectCount, reconnectDelay>>
linkVars == <<sockets, timers>>
envVars == <<now, audio>>
dataVars == <<appChains, localStorage>>

Max(a, b) == IF a > b THEN a ELSE b
Min(a, b) == IF a < b THEN a ELSE b


(***************************************************************************)
(* Values of the host language.                                            *)
(***************************************************************************)
\* Number(s) for the strings of Hashes: a decimal numeral converts to its value, anything else to NaN
StringToNumber(s) == CASE s = "1" -> 1
                       [] s = "2" -> 2
                       [] s = "3" -> 3
                       [] OTHER -> NaN

\* str != num (loose inequality of a string with a number); undefined != undefined is false
LooseNotEqual(str, num) ==
  IF str = MissingString \/ num = MissingNumber
    THEN ~(str = MissingString /\ num = MissingNumber)
    ELSE StringToNumber(str) = NaN \/ StringToNumber(str) # num

\* Array.prototype.findIndex with (element) => element.id === id, 0-based, -1 when absent
FindIndex(arr, id) ==
  IF \E i \in 1..Len(arr) : arr[i].id = id
    THEN (CHOOSE i \in 1..Len(arr) : arr[i].id = id /\ \A j \in 1..(i - 1) : arr[j].id # id) - 1
    ELSE -1

\* the keys of a set in some fixed order
RECURSIVE SetToSeq(_)
SetToSeq(S) == IF S = {} THEN <<>>
               ELSE LET k == CHOOSE e \in S : TRUE IN <<k>> \o SetToSeq(S \ {k})

\* JSON.stringify of the preference object: a text with one "key":true member per own key
\* (the object is held as the set of its keys; every value the code stores is true)
JSONStringify(obj) ==
  [syntax |-> "object",
   members |-> [i \in 1..Cardinality(obj) |-> [key |-> SetToSeq(obj)[i], value |-> "true"]]]

\* a text JSON.parse rejects with a SyntaxError
CorruptText == [syntax |-> "error"]
JSONParseThrows(text) == text.syntax # "object"

\* JSON.parse of an object text: the keys whose value is truthy
JSONParse(text) == { text.members[i].key : i \in { j \in DOMAIN text.members : text.members[j].value = "true" } }

\* localStorage.getItem: null when the entry was never set
NoItem == [item |-> FALSE]
GetItem(storage) == storage
SetItem(text) == [item |-> TRUE, text |-> text]

(***************************************************************************)
(* ChainsState                                                             *)
(***************************************************************************)
\* every property name the model lets the states array take (negative ones are plain properties)
StateIdxs == (0 - 3)..3

\* line 40 throws when the entry holds a text JSON.parse rejects
LoadThrows(storage) == GetItem(storage) # NoItem /\ JSONParseThrows(GetItem(storage).text)

\* JSON.parse(window.localStorage.getItem('enableSoundFor') || '{}')
LoadEnableSoundFor(storage) ==
  IF GetItem(storage) = NoItem THEN {} ELSE JSONParse(GetItem(storage).text)

\* a variant that writes only the keys of registry pairs
SaveEnableSoundForKnownOnly(cs) ==
  SetItem(JSONStringify({ key \in cs.enableSoundFor :
            \E i \in 1..Len(cs.sources), j \in 1..Len(cs.chains) :
              key = cs.sources[i].id \o "###" \o cs.chains[j].id }))

SaveEnableSoundFor(cs) == SetItem(JSONStringify(cs.enableSoundFor))

\* a variant that starts every ChainsState with no pair enabled
NewChainsStateWithoutPreferences(sources, chains, storage) ==
  [sources |-> sources,
   chains |-> chains,
   states |-> [i \in StateIdxs |-> undefined],
   bestHeight |-> [i \in 0..(Len(chains) - 1) |-> 0],
   enableSoundFor |-> {}]

\* a variant that sizes bestHeight by the sources
NewChainsStateSizedBySources(sources, chains, storage) ==
  [sources |-> sources,
   chains |-> chains,
   states |-> [i \in StateIdxs |-> undefined],
   bestHeight |-> [i \in 0..(Len(sources) - 1) |-> 0],
   enableSoundFor |-> LoadEnableSoundFor(storage)]

\* new ChainsState(sources, chains)
NewChainsState(sources, chains, storage) ==
  [sources |-> sources,
   chains |-> chains,
   states |-> [i \in StateIdxs |-> undefined],
   bestHeight |-> [i \in 0..(Len(chains) - 1) |-> 0],
   enableSoundFor |-> LoadEnableSoundFor(storage)]

EnableSoundForIdx(source, chain) == source \o "###" \o chain

GetEnableSoundFor(cs, source, chain) == EnableSoundForIdx(source, chain) \in cs.enableSoundFor

ToggleEnableSoundFor(cs, source, chain) ==
  IF GetEnableSoundFor(cs, source, chain)
    THEN [cs EXCEPT !.enableSoundFor = @ \ {EnableSoundForIdx(source, chain)}]
    ELSE [cs EXCEPT !.enableSoundFor = @ \cup {EnableSoundForIdx(source, chain)}]

\* a variant that forgets the row stride
GetIdxWithoutStride(cs, sourceIdx, chainIdx) == sourceIdx + chainIdx

GetIdx(cs, sourceIdx, chainIdx) == sourceIdx * Len(cs.chains) + chainIdx

GetIdxByIds(cs, source, chain) ==
  GetIdx(cs, FindIndex(cs.sources, source), FindIndex(cs.chains, chain))

GetChainIdx(cs, chain) == FindIndex(cs.chains, chain)

\* a variant that stores the height of every update it can index
BestHeightAfterOverwrite(bestHeight, bestHeightIdx, height) ==
  IF bestHeightIdx \in DOMAIN bestHeight
    THEN [bestHeight EXCEPT ![bestHeightIdx] = height]
    ELSE bestHeight

\* lines 70-73: this.bestHeight[-1] is undefined, and undefined < height is false
BestHeightAfter(bestHeight, bestHeightIdx, height) ==
  IF bestHeightIdx \in DOMAIN bestHeight /\ height # MissingNumber /\ bestHeight[bestHeightIdx] < height
    THEN [bestHeight EXCEPT ![bestHeightIdx] = height]
    ELSE bestHeight

\* a variant that does not consult the preference
ShouldPlaySoundAlways(prev, chainState, enabled) ==
  prev = undefined \/ LooseNotEqual(prev.hash, chainState.height)

\* line 75: the condition under which update() calls playSound()
ShouldPlaySound(prev, chainState, enabled) ==
  (prev = undefined \/ LooseNotEqual(prev.hash, chainState.height)) /\ enabled

\* a variant that carries firstSeenTs over while height and hash stay the same
StatesAfterKeepFirstSeen(states, stateIdx, chainState) ==
  IF /\ states[stateIdx] # undefined
     /\ states[stateIdx].height = chainState.height
     /\ states[stateIdx].hash = chainState.hash
    THEN [states EXCEPT ![stateIdx] = [chainState EXCEPT !.firstSeenTs = states[stateIdx].firstSeenTs]]
    ELSE [states EXCEPT ![stateIdx] = chainState]

\* a variant that starts a new array for the assignment
StatesAfterFresh(states, stateIdx, chainState) ==
  [i \in StateIdxs |-> IF i = stateIdx THEN chainState ELSE undefined]

\* a variant that keeps the lastCheckedTs of an unchanged observation
StatesAfterKeepLastChecked(states, stateIdx, chainState) ==
  IF /\ states[stateIdx] # undefined
     /\ states[stateIdx].height = chainState.height
     /\ states[stateIdx].hash = chainState.hash
    THEN [states EXCEPT ![stateIdx] = [chainState EXCEPT !.lastCheckedTs = states[stateIdx].lastCheckedTs]]
    ELSE [states EXCEPT ![stateIdx] = chainState]

\* lines 66-68: the states array after the assignment
StatesAfter(states, stateIdx, chainState) == [states EXCEPT ![stateIdx] = chainState]

\* ChainsState.update(source, chain, chainState): the object afterwards
Update(cs, source, chain, chainState) ==
  [cs EXCEPT !.states = StatesAfter(@, GetIdxByIds(cs, source, chain), chainState),
             !.bestHeight = BestHeightAfter(@, GetChainIdx(cs, chain), chainState.height)]

\* the local prevState of update()
PrevStateOf(cs, source, chain) == cs.states[GetIdxByIds(cs, source, chain)]

\* diff of a cell as renderTable computes it (lines 184-199)
Diff(cs, sourceIdx, chainIdx) == cs.states[GetIdx(cs, sourceIdx, chainIdx)].height - cs.bestHeight[chainIdx]

\* the cells renderTable draws: (sourceIdx, chainIdx) pairs of the registry
Cells(cs) == (0..(Len(cs.sources) - 1)) \X (0..(Len(cs.chains) - 1))

HasState(cs, sourceIdx, chainIdx) == cs.states[GetIdx(cs, sourceIdx, chainIdx)] # undefined

\* a variant without the tolerance of one block
ClassificationWithoutTolerance(cs, sourceIdx, chainIdx) ==
  IF ~HasState(cs, sourceIdx, chainIdx) THEN "missing-state"
  ELSE IF Diff(cs, sourceIdx, chainIdx) >= 0 THEN "at-chainhead"
  ELSE "not-at-chainhead"

\* the class renderTable gives a cell (lines 198, 216-220, 235)
Classification(cs, sourceIdx, chainIdx) ==
  IF ~HasState(cs, sourceIdx, chainIdx) THEN "missing-state"
  ELSE IF Diff(cs, sourceIdx, chainIdx) >= 0 - 1 THEN "at-chainhead"
  ELSE "not-at-chainhead"

\* Math.round of a number of seconds held in ms: the nearest integer, halves upwards
MathRound(ms) == (ms + 500) \div 1000

\* lines 200-201: stalenessSecs of an observation drawn at the clock value nowMs
StalenessSecs(nowMs, firstSeenTs) == MathRound(nowMs - 1000 * firstSeenTs)

\* lines 222-224: the cell gets the class just-increased
JustIncreased(cs, sourceIdx, chainIdx, nowMs) ==
  /\ HasState(cs, sourceIdx, chainIdx)
  /\ StalenessSecs(nowMs, cs.states[GetIdx(cs, sourceIdx, chainIdx)].firstSeenTs) < 25

\* a variant that takes the smaller of the two periods as the threshold
StaleBySmallerPeriod(cs, sourceIdx, chainIdx, nowMs) ==
  /\ HasState(cs, sourceIdx, chainIdx)
  /\ StalenessSecs(nowMs, cs.states[GetIdx(cs, sourceIdx, chainIdx)].firstSeenTs)
       > Min(cs.chains[chainIdx + 1].blockTimeSecs * 3, 60)

\* a variant that is stale from the threshold on
StaleFromThreshold(cs, sourceIdx, chainIdx, nowMs) ==
  /\ HasState(cs, sourceIdx, chainIdx)
  /\ StalenessSecs(nowMs, cs.states[GetIdx(cs, sourceIdx, chainIdx)].firstSeenTs)
       >= Max(cs.chains[chainIdx + 1].blockTimeSecs * 3, 60)

\* lines 225-227: the cell gets the class stale
Stale(cs, sourceIdx, chainIdx, nowMs) ==
  /\ HasState(cs, sourceIdx, chainIdx)
  /\ StalenessSecs(nowMs, cs.states[GetIdx(cs, sourceIdx, chainIdx)].firstSeenTs)
       > Max(cs.chains[chainIdx + 1].blockTimeSecs * 3, 60)

\* app.redraw(): the table renderTable builds from app.chains at the clock value nowMs
Redraw(cs, nowMs) ==
  [chains |-> cs,
   class |-> [cell \in Cells(cs) |-> Classification(cs, cell[1], cell[2])],
   justIncreased |-> [cell \in Cells(cs) |-> JustIncreased(cs, cell[1], cell[2], nowMs)],
   stale |-> [cell \in Cells(cs) |-> Stale(cs, cell[1], cell[2], nowMs)]]

\* a variant that draws before it updates
RedrawBeforeUpdate(before, after, nowMs) == Redraw(before, nowMs)

\* lines 279-280: update() has returned when redraw() draws
RedrawAfterUpdate(before, after, nowMs) == Redraw(after, nowMs)

\* what new Audio('sound1.mp3').play() may do: play, throw, or return a promise that rejects
AudioOutcomes == {"plays", "throws", "rejects"}

\* a variant without the try/catch
PlaySoundRaisesUncaught(sound) == sound = "throws"

\* lines 16-22: playSound() catches what new Audio().play() throws; a rejected promise
\* is reported later and not to the caller
PlaySoundRaises(sound) == FALSE

(***************************************************************************)
(* App                                                                     *)
(***************************************************************************)
\* a variant without the cap
ReconnectDelayUncapped(count, randomMilli) ==
  (ReconnectUnitMs * count * (randomMilli + JitterOffsetMilli)) \div 1000

\* line 293: Math.min(60000, 1000 * app.reconnectCount * (Math.random() + 0.5)), in ms
ReconnectDelay(count, randomMilli) ==
  Min(MaxReconnectDelayMs, (ReconnectUnitMs * count * (randomMilli + JitterOffsetMilli)) \div 1000)

\* line 274: the counter after a frame was decoded
CountAfterMessage(count) == 0

\* lines 266-269: the counter after the open event
CountAfterOpen(count) == count

\* line 295
CountAfterClose(count) == count + 1

\* what the entry may hold when the page loads: nothing, or what an earlier session saved
InitialStorage == {NoItem, SetItem(JSONStringify({"A###X", "B###Y"}))}

\* a handler that decodes no frame
NoFrame(event) ==
  /\ played' = 0
  /\ lastEvent' = [type |-> event]
  /\ prevState' = undefined
  /\ replaced' = undefined
  /\ rendered' = <<>>
  /\ UNCHANGED <<maxSeen, nFrames, envVars>>

Init ==
  /\ connState = "Disconnected"
  /\ reconnectCount = 0
  /\ reconnectDelay = 0
  /\ appChains = undefined
  /\ localStorage \in InitialStorage
  /\ played = 0
  /\ lastEvent = [type |-> "none"]
  /\ prevState = undefined
  /\ replaced = undefined
  /\ maxSeen = [c \in ChainIds |-> 0]
  /\ nFrames = 0
  /\ nToggles = 0
  /\ sockets = 0
  /\ timers = 0
  /\ now = 0
  /\ audio = "plays"
  /\ rendered = <<>>

\* window.onload: new App(), app.connect()
OnLoad ==
  /\ connState = "Disconnected"
  /\ connState' = "Connecting"
  /\ sockets' = sockets + 1
  /\ NoFrame("load")
  /\ UNCHANGED <<reconnectCount, reconnectDelay, dataVars, nToggles, timers>>

\* the socket's open event
OnOpen ==
  /\ connState = "Connecting"
  /\ connState' = "Connected"
  /\ reconnectCount' = CountAfterOpen(reconnectCount)
  /\ NoFrame("open")
  /\ UNCHANGED <<reconnectDelay, dataVars, nToggles, linkVars>>

\* a variant that resets the ChainsState in place, registry first, before the load
OnMessageInitInPlace(msg) ==
  /\ connState = "Connected"
  /\ nFrames' = nFrames + 1
  /\ reconnectCount' = CountAfterMessage(reconnectCount)
  /\ IF LoadThrows(localStorage)
       THEN /\ appChains' = IF appChains = undefined THEN undefined
                            ELSE [appChains EXCEPT !.sources = msg.sources, !.chains = msg.chains]
            /\ replaced' = undefined
            /\ rendered' = <<>>
       ELSE /\ appChains' = NewChainsState(msg.sources, msg.chains, localStorage)
            /\ replaced' = appChains
            /\ rendered' = <<Redraw(appChains', now)>>
  /\ played' = 0
  /\ lastEvent' = msg
  /\ prevState' = undefined
  /\ maxSeen' = [c \in DOMAIN maxSeen |-> 0]
  /\ UNCHANGED <<connState, reconnectDelay, localStorage, nToggles, linkVars, envVars>>

\* message event, msg.type === 'init'; the constructor throws when the preference load does
OnMessageInit(msg) ==
  /\ connState = "Connected"
  /\ nFrames' = nFrames + 1
  /\ reconnectCount' = CountAfterMessage(reconnectCount)
  /\ IF LoadThrows(localStorage)
       THEN UNCHANGED appChains /\ replaced' = undefined /\ rendered' = <<>>
       ELSE /\ appChains' = NewChainsState(msg.sources, msg.chains, localStorage)
            /\ replaced' = appChains
            /\ rendered' = <<Redraw(appChains', now)>>
  /\ played' = 0
  /\ lastEvent' = msg
  /\ prevState' = undefined
  /\ maxSeen' = [c \in DOMAIN maxSeen |-> 0]
  /\ UNCHANGED <<connState, reconnectDelay, localStorage, nToggles, linkVars, envVars>>

\* message event, msg.type === 'update'; app.chains.update throws while app.chains is undefined
OnMessageUpdate(msg) ==
  /\ connState = "Connected"
  /\ nFrames' = nFrames + 1
  /\ reconnectCount' = CountAfterMessage(reconnectCount)
  /\ lastEvent' = msg
  /\ replaced' = undefined
  /\ maxSeen' = IF msg.chain \in DOMAIN maxSeen
                  THEN [maxSeen EXCEPT ![msg.chain] = Max(@, msg.height)]
                  ELSE maxSeen
  /\ IF appChains = undefined
       THEN /\ played' = 0
            /\ prevState' = undefined
            /\ rendered' = <<>>
            /\ UNCHANGED appChains
       ELSE /\ appChains' = Update(appChains, msg.source, msg.chain, msg)
            /\ prevState' = PrevStateOf(appChains, msg.source, msg.chain)
            /\ played' = IF ShouldPlaySound(PrevStateOf(appChains, msg.source, msg.chain), msg,
                                            GetEnableSoundFor(appChains, msg.source, msg.chain))
                           THEN 1 ELSE 0
            /\ rendered' = IF played' = 1 /\ PlaySoundRaises(audio)
                              THEN <<>>
                              ELSE <<RedrawAfterUpdate(appChains, appChains', now)>>
  /\ UNCHANGED <<connState, reconnectDelay, localStorage, nToggles, linkVars, envVars>>

\* message event with any other msg.type
OnMessageOther ==
  /\ connState = "Connected"
  /\ nFrames' = nFrames + 1
  /\ reconnectCount' = CountAfterMessage(reconnectCount)
  /\ played' = 0
  /\ lastEvent' = [type |-> "other"]
  /\ prevState' = undefined
  /\ replaced' = undefined
  /\ rendered' = <<>>
  /\ UNCHANGED <<connState, reconnectDelay, dataVars, maxSeen, nToggles, linkVars, envVars>>

\* message event whose data JSON.parse rejects (line 273 throws)
OnMessageUndecodable ==
  /\ connState = "Connected"
  /\ nFrames' = nFrames + 1
  /\ played' = 0
  /\ lastEvent' = [type |-> "undecodable"]
  /\ prevState' = undefined
  /\ replaced' = undefined
  /\ rendered' = <<>>
  /\ UNCHANGED <<connVars, dataVars, maxSeen, nToggles, linkVars, envVars>>

\* message event, msg.type === 'init' without chains: chains.length throws in the constructor
OnMessageInitNoChains ==
  /\ connState = "Connected"
  /\ nFrames' = nFrames + 1
  /\ reconnectCount' = CountAfterMessage(reconnectCount)
  /\ played' = 0
  /\ lastEvent' = [type |-> "init-no-chains"]
  /\ prevState' = undefined
  /\ replaced' = undefined
  /\ maxSeen' = [c \in DOMAIN maxSeen |-> 0]
  /\ rendered' = <<>>
  /\ UNCHANGED <<connState, reconnectDelay, dataVars, nToggles, linkVars, envVars>>

\* a variant whose error handler schedules a reconnect of its own
OnErrorScheduling ==
  /\ connState \in {"Connecting", "Connected"}
  /\ connState' = "Closing"
  /\ timers' = timers + 1
  /\ NoFrame("error")
  /\ UNCHANGED <<reconnectCount, reconnectDelay, dataVars, nToggles, sockets>>

\* a variant whose error handler counts the loss too
OnErrorCounting ==
  /\ connState \in {"Connecting", "Connected"}
  /\ connState' = "Closing"
  /\ reconnectCount' = CountAfterClose(reconnectCount)
  /\ NoFrame("error")
  /\ UNCHANGED <<reconnectDelay, dataVars, nToggles, linkVars>>

\* the socket's error event: socket.close()
OnError ==
  /\ connState \in {"Connecting", "Connected"}
  /\ connState' = "Closing"
  /\ NoFrame("error")
  /\ UNCHANGED <<reconnectCount, reconnectDelay, dataVars, nToggles, linkVars>>

\* a variant that stops scheduling the timer after three losses
OnCloseGivingUp(randomMilli) ==
  /\ connState \in {"Connecting", "Connected", "Closing"}
  /\ connState' = IF reconnectCount < 3 THEN "Reconnecting" ELSE "GaveUp"
  /\ reconnectDelay' = ReconnectDelay(reconnectCount, randomMilli)
  /\ reconnectCount' = CountAfterClose(reconnectCount)
  /\ sockets' = sockets - 1
  /\ timers' = timers + 1
  /\ played' = 0
  /\ lastEvent' = [type |-> "close", afterError |-> connState = "Closing"]
  /\ prevState' = undefined
  /\ replaced' = undefined
  /\ rendered' = <<>>
  /\ UNCHANGED <<dataVars, nToggles, maxSeen, nFrames, envVars>>

\* the socket's close event
OnClose(randomMilli) ==
  /\ connState \in {"Connecting", "Connected", "Closing"}
  /\ connState' = "Reconnecting"
  /\ reconnectDelay' = ReconnectDelay(reconnectCount, randomMilli)
  /\ reconnectCount' = CountAfterClose(reconnectCount)
  /\ sockets' = sockets - 1
  /\ timers' = timers + 1
  /\ played' = 0
  /\ lastEvent' = [type |-> "close", afterError |-> connState = "Closing"]
  /\ prevState' = undefined
  /\ replaced' = undefined
  /\ rendered' = <<>>
  /\ UNCHANGED <<dataVars, nToggles, maxSeen, nFrames, envVars>>

\* a variant whose connect() starts from an empty ChainsState
OnTimeoutForgetting ==
  /\ connState = "Reconnecting"
  /\ connState' = "Connecting"
  /\ timers' = timers - 1
  /\ sockets' = sockets + 1
  /\ appChains' = IF appChains = undefined THEN undefined
                  ELSE NewChainsState(appChains.sources, appChains.chains, localStorage)
  /\ NoFrame("timeout")
  /\ UNCHANGED <<reconnectCount, reconnectDelay, localStorage, nToggles>>

\* the setTimeout callback: app.connect()
OnTimeout ==
  /\ connState = "Reconnecting"
  /\ connState' = "Connecting"
  /\ timers' = timers - 1
  /\ sockets' = sockets + 1
  /\ NoFrame("timeout")
  /\ UNCHANGED <<reconnectCount, reconnectDelay, dataVars, nToggles>>

\* the audio device or the autoplay permission changes; no handler runs
AudioChanges(sound) ==
  /\ sound # audio
  /\ audio' = sound
  /\ played' = 0
  /\ lastEvent' = [type |-> "audio"]
  /\ prevState' = undefined
  /\ replaced' = undefined
  /\ rendered' = <<>>
  /\ UNCHANGED <<connVars, dataVars, maxSeen, nFrames, nToggles, linkVars, now>>

\* time passes: the clock reads nowMs from here on; no handler runs
Tick(nowMs) ==
  /\ nowMs > now
  /\ now' = nowMs
  /\ played' = 0
  /\ lastEvent' = [type |-> "tick"]
  /\ prevState' = undefined
  /\ replaced' = undefined
  /\ rendered' = <<>>
  /\ UNCHANGED <<connVars, dataVars, maxSeen, nFrames, nToggles, linkVars, audio>>

\* the entry is rewritten from outside this page (another page of the origin, the user)
\* with a text JSON.parse rejects; no handler runs
StorageCorrupted ==
  /\ ~LoadThrows(localStorage)
  /\ localStorage' = SetItem(CorruptText)
  /\ played' = 0
  /\ lastEvent' = [type |-> "storage"]
  /\ prevState' = undefined
  /\ replaced' = undefined
  /\ rendered' = <<>>
  /\ UNCHANGED <<connVars, appChains, maxSeen, nFrames, nToggles, linkVars, envVars>>

\* a variant whose listener forgets to save
OnClickWithoutSave(sourceIdx, chainIdx) ==
  /\ appChains # undefined
  /\ <<sourceIdx, chainIdx>> \in Cells(appChains)
  /\ HasState(appChains, sourceIdx, chainIdx)
  /\ nToggles' = nToggles + 1
  /\ appChains' = ToggleEnableSoundFor(appChains, appChains.sources[sourceIdx + 1].id,
                                       appChains.chains[chainIdx + 1].id)
  /\ played' = 0
  /\ lastEvent' = [type |-> "click", source |-> appChains.sources[sourceIdx + 1].id,
                   chain |-> appChains.chains[chainIdx + 1].id]
  /\ prevState' = undefined
  /\ replaced' = undefined
  /\ rendered' = <<Redraw(appChains', now)>>
  /\ UNCHANGED <<connVars, localStorage, maxSeen, nFrames, linkVars, envVars>>

\* click on a cell that renderTable drew with a chainState
OnClick(sourceIdx, chainIdx) ==
  /\ appChains # undefined
  /\ <<sourceIdx, chainIdx>> \in Cells(appChains)
  /\ HasState(appChains, sourceIdx, chainIdx)
  /\ nToggles' = nToggles + 1
  /\ LET toggled == ToggleEnableSoundFor(appChains, appChains.sources[sourceIdx + 1].id,
                                         appChains.chains[chainIdx + 1].id)
     IN /\ appChains' = toggled
        /\ localStorage' = SaveEnableSoundFor(toggled)
  /\ played' = 0
  /\ lastEvent' = [type |-> "click", source |-> appChains.sources[sourceIdx + 1].id,
                   chain |-> appChains.chains[chainIdx + 1].id]
  /\ prevState' = undefined
  /\ replaced' = undefined
  /\ rendered' = <<Redraw(appChains', now)>>
  /\ UNCHANGED <<connVars, maxSeen, nFrames, linkVars, envVars>>

\* the page is loaded anew: the App and its ChainsState are gone, a new App connects
OnReload ==
  /\ connState # "Disconnected"
  /\ connState' = "Connecting"
  /\ reconnectCount' = 0
  /\ reconnectDelay' = 0
  /\ appChains' = undefined
  /\ replaced' = appChains
  /\ played' = 0
  /\ lastEvent' = [type |-> "reload"]
  /\ prevState' = undefined
  /\ sockets' = 1
  /\ timers' = 0
  /\ rendered' = <<>>
  /\ UNCHANGED <<localStorage, maxSeen, nFrames, nToggles, envVars>>

Next ==
  \/ OnLoad
  \/ OnOpen
  \/ (nFrames < MaxFrames /\ \E msg \in InitMsgs : OnMessageInit(msg))
  \/ (nFrames < MaxFrames /\ \E msg \in UpdateMsgs : OnMessageUpdate(msg))
  \/ (nFrames < MaxFrames /\ OnMessageOther)
  \/ (reconnectCount < MaxReconnectCount /\ OnError)
  \/ (reconnectCount < MaxReconnectCount /\ \E r \in RandomMilli : OnClose(r))
  \/ OnTimeout
  \/ (nToggles < MaxToggles /\ \E sourceIdx \in 0..1, chainIdx \in 0..1 : OnClick(sourceIdx, chainIdx))

Spec == Init /\ [][Next]_vars

(***************************************************************************)
(* The connection loop alone: the frames it sees carry an unknown type, so *)
(* the matrix stays as it is and long runs of losses fit in the bounds.    *)
(***************************************************************************)
NextConn ==
  \/ OnLoad
  \/ OnOpen
  \/ (nFrames < MaxFrames /\ OnMessageOther)
  \/ (reconnectCount < MaxAttempts /\ OnError)
  \/ (reconnectCount < MaxAttempts /\ \E r \in RandomMilli : OnClose(r))
  \/ OnTimeout

ConnSpec == Init /\ [][NextConn]_vars

\* socket.close() is followed by the close event, and a timer that was set fires
CloseAfterError == connState = "Closing" /\ reconnectCount < MaxAttempts /\ \E r \in RandomMilli : OnClose(r)

ConnLiveSpec == ConnSpec /\ WF_vars(CloseAfterError) /\ WF_vars(OnTimeout)

(***************************************************************************)
(* The client fed with malformed frames, and started on a preference entry *)
(* that does not parse.                                                    *)
(***************************************************************************)
FaultyStorage == InitialStorage \cup {SetItem(CorruptText)}

FaultInit ==
  /\ connState = "Disconnected"
  /\ reconnectCount = 0
  /\ reconnectDelay = 0
  /\ appChains = undefined
  /\ localStorage \in FaultyStorage
  /\ played = 0
  /\ lastEvent = [type |-> "none"]
  /\ prevState = undefined
  /\ replaced = undefined
  /\ maxSeen = [c \in ChainIds |-> 0]
  /\ nFrames = 0
  /\ nToggles = 0
  /\ sockets = 0
  /\ timers = 0
  /\ now = 0
  /\ audio = "plays"
  /\ rendered = <<>>

NextFault ==
  \/ OnLoad
  \/ OnOpen
  \/ (nFrames < MaxFrames /\ \E msg \in InitMsgs : OnMessageInit(msg))
  \/ (nFrames < MaxFrames /\ \E msg \in PlainUpdateMsgs \cup MalformedUpdateMsgs : OnMessageUpdate(msg))
  \/ (nFrames < MaxFrames /\ OnMessageOther)
  \/ (nFrames < MaxFrames /\ OnMessageUndecodable)
  \/ (nFrames < MaxFrames /\ OnMessageInitNoChains)
  \/ (nToggles < MaxToggles /\ \E sourceIdx \in 0..1, chainIdx \in 0..1 : OnClick(sourceIdx, chainIdx))

FaultSpec == FaultInit /\ [][NextFault]_vars

(***************************************************************************)
(* The preferences: a registry whose ids carry '#' (none holds the         *)
(* delimiter '###'), clicks, and reloads of the page.                      *)
(***************************************************************************)
MaxPrefToggles == 2

SourceAHash == [id |-> "A#"]
ChainHashX == [id |-> "#X", blockTimeSecs |-> 10]
PrefInitMsgs == { [type |-> "init", sources |-> <<SourceA, SourceAHash>>, chains |-> <<ChainX, ChainHashX>>],
                  [type |-> "init", sources |-> <<SourceA>>, chains |-> <<ChainX>>] }
PrefUpdateMsgs == [type : {"update"}, source : {"A", "A#"}, chain : {"X", "#X"}, height : {1},
                   hash : {"h1"}, firstSeenTs : {1}, lastCheckedTs : {1}]

NextPref ==
  \/ OnLoad
  \/ OnOpen
  \/ (nFrames < MaxFrames /\ \E msg \in PrefInitMsgs : OnMessageInit(msg))
  \/ (nFrames < MaxFrames /\ \E msg \in PrefUpdateMsgs : OnMessageUpdate(msg))
  \/ (nToggles < MaxPrefToggles /\ \E sourceIdx \in 0..1, chainIdx \in 0..1 : OnClick(sourceIdx, chainIdx))
  \/ OnReload

PrefSpec == Init /\ [][NextPref]_vars

(***************************************************************************)
(* Two sources reporting one chain at heights around a tip of 100.         *)
(***************************************************************************)
MaxScenarioFrames == 4

ScenarioHeights == {80, 98, 99, 100}
ScenarioInitMsgs == { [type |-> "init", sources |-> <<SourceA, SourceB>>, chains |-> <<ChainX>>] }
ScenarioUpdateMsgs == [type : {"update"}, source : {"A", "B"}, chain : {"X"}, height : ScenarioHeights,
                       hash : {"h1"}, firstSeenTs : {1}, lastCheckedTs : {1}]

NextScenario ==
  \/ OnLoad
  \/ OnOpen
  \/ (nFrames < MaxScenarioFrames /\ \E msg \in ScenarioInitMsgs : OnMessageInit(msg))
  \/ (nFrames < MaxScenarioFrames /\ \E msg \in ScenarioUpdateMsgs : OnMessageUpdate(msg))

ScenarioSpec == Init /\ [][NextScenario]_vars

(***************************************************************************)
(* Alerts while the playback of the sound may fail.                        *)
(***************************************************************************)
AlertInitMsgs == { [type |-> "init", sources |-> <<SourceA, SourceB>>, chains |-> <<ChainX, ChainY>>] }

NextAlert ==
  \/ OnLoad
  \/ OnOpen
  \/ (nFrames < MaxFrames /\ \E msg \in AlertInitMsgs : OnMessageInit(msg))
  \/ (nFrames < MaxFrames /\ \E msg \in PlainUpdateMsgs : OnMessageUpdate(msg))
  \/ (\E sound \in AudioOutcomes : AudioChanges(sound))

AlertSpec == Init /\ [][NextAlert]_vars

(***************************************************************************)
(* Rendering as time passes: chains of several block times, observations   *)
(* first seen at 0 s and 3 s, the clock at whole seconds around the        *)
(* thresholds.                                                             *)
(***************************************************************************)
StaleBlockTimes == {0, 20, 21, 30}
StaleInitMsgs == { [type |-> "init", sources |-> <<SourceA>>, chains |-> <<[id |-> "X", blockTimeSecs |-> b]>>] :
                   b \in StaleBlockTimes }
StaleUpdateMsgs == { [type |-> "update", source |-> "A", chain |-> "X", height |-> 1, hash |-> "h1",
                      firstSeenTs |-> t, lastCheckedTs |-> t] : t \in {0, 3} }
ClockSecs == {3, 24, 25, 60, 61, 63, 64, 66, 67, 90, 91, 93, 94}

NextStale ==
  \/ OnLoad
  \/ OnOpen
  \/ (nFrames < MaxFrames /\ \E msg \in StaleInitMsgs : OnMessageInit(msg))
  \/ (nFrames < MaxFrames /\ \E msg \in StaleUpdateMsgs : OnMessageUpdate(msg))
  \/ (\E secs \in ClockSecs : Tick(1000 * secs))

StaleSpec == Init /\ [][NextStale]_vars

(***************************************************************************)
(* Init frames whose handler fails part-way: the preference entry turns    *)
(* unparsable during the session, or the frame carries no chains.          *)
(***************************************************************************)
NextAtomic ==
  \/ OnLoad
  \/ OnOpen
  \/ (nFrames < MaxFrames /\ \E msg \in InitMsgs : OnMessageInit(msg))
  \/ (nFrames < MaxFrames /\ \E msg \in PlainUpdateMsgs : OnMessageUpdate(msg))
  \/ (nFrames < MaxFrames /\ OnMessageInitNoChains)
  \/ StorageCorrupted

AtomicSpec == Init /\ [][NextAtomic]_vars

TypeOK ==
  /\ connState \in {"Disconnected", "Connecting", "Connected", "Closing", "Reconnecting"}
  /\ reconnectCount \in 0..MaxAttempts
  /\ played \in 0..1
  /\ nFrames \in 0..MaxFrames


(***************************************************************************)
(* Properties                                                              *)
(***************************************************************************)
\* the update frame names a source and a chain of the registry
KnownPair(cs, msg) == FindIndex(cs.sources, msg.source) >= 0 /\ FindIndex(cs.chains, msg.chain) >= 0

\* the last handler ran ChainsState.update for this frame
UpdateApplied == lastEvent.type = "update" /\ appChains # undefined

\* the cell of the registry the last update frame names
UpdatedCell == appChains.states[GetIdxByIds(appChains, lastEvent.source, lastEvent.chain)]

\* the update differs in height or hash from the observation it found, or found none
Changed(prev, msg) == prev = undefined \/ prev.height # msg.height \/ prev.hash # msg.hash

\* C1: for every chain of the registry, bestHeight equals the largest height carried by an
\* update frame for that chain since the last init frame (0 without one), and no handler
\* other than the init handler lowers it.
C1_BestHeightIsMaxSinceInit ==
  /\ [](appChains # undefined =>
          \A i \in 1..Len(appChains.chains) :
            appChains.bestHeight[i - 1] = maxSeen[appChains.chains[i].id])
  /\ [][(appChains # undefined /\ lastEvent'.type # "init") =>
          \A i \in DOMAIN appChains.bestHeight : appChains'.bestHeight[i] >= appChains.bestHeight[i]]_vars

\* an update below the best height was applied and the best height stayed
C1_Witness ==
  /\ UpdateApplied
  /\ KnownPair(appChains, lastEvent)
  /\ lastEvent.height = 1
  /\ appChains.bestHeight[GetChainIdx(appChains, lastEvent.chain)] = 2

\* C2: every cell of the registry that holds an observation has height <= bestHeight of
\* its chain, so no rendered diff is positive.
C2_NoCellAheadOfBest ==
  appChains # undefined =>
    \A cell \in Cells(appChains) :
      HasState(appChains, cell[1], cell[2]) => Diff(appChains, cell[1], cell[2]) <= 0

\* C3: for an enabled pair of the registry, an update plays the alert once when it is the
\* pair's first observation or differs in height or hash from the previous one, and not at
\* all when it repeats the previous height and hash.
C3_AlertIffChanged ==
  (/\ UpdateApplied
   /\ KnownPair(appChains, lastEvent)
   /\ (lastEvent.source \o "###" \o lastEvent.chain) \in appChains.enableSoundFor)
  => played = (IF Changed(prevState, lastEvent) THEN 1 ELSE 0)

\* C4: an update for a pair that is not enabled never plays the alert.
C4_DisabledPairIsSilent ==
  (/\ lastEvent.type = "update"
   /\ (lastEvent.source \o "###" \o lastEvent.chain) \notin
        (IF appChains = undefined THEN LoadEnableSoundFor(localStorage) ELSE appChains.enableSoundFor))
  => played = 0

\* a first observation arrived for a pair of the registry that is not enabled
C4_Witness ==
  /\ UpdateApplied
  /\ KnownPair(appChains, lastEvent)
  /\ prevState = undefined
  /\ (lastEvent.source \o "###" \o lastEvent.chain) \notin appChains.enableSoundFor
  /\ appChains.enableSoundFor # {}
  /\ played = 0

\* C5: an update whose source or chain is not in the registry changes no cell and no
\* bestHeight entry.
C5_UnknownIdLeavesStateAlone ==
  [][(/\ lastEvent'.type = "update"
      /\ appChains # undefined
      /\ ~KnownPair(appChains, lastEvent'))
     => /\ \A i \in StateIdxs : i >= 0 => appChains'.states[i] = appChains.states[i]
        /\ appChains'.bestHeight = appChains.bestHeight]_vars

C7_CounterZeroAfterOpen ==
  lastEvent.type = "open" => reconnectCount = 0

\* C8: every error or close is followed by a new connect attempt.
C8_LossLeadsToConnect ==
  (connState \in {"Closing", "Reconnecting"}) ~> (connState = "Connecting")

\* connect() ran from the timer after several losses in a row
C8_Witness ==
  /\ lastEvent.type = "timeout"
  /\ connState = "Connecting"
  /\ reconnectCount >= 5

\* C9: the delay handed to the timer on a loss lies in [0, 60000] ms.
C9_DelayWithinCap ==
  lastEvent.type = "close" => (reconnectDelay >= 0 /\ reconnectDelay <= MaxReconnectDelayMs)

\* a loss whose uncapped delay exceeds the cap was scheduled at the cap
C9_Witness ==
  /\ lastEvent.type = "close"
  /\ reconnectDelay = MaxReconnectDelayMs
  /\ ReconnectDelayUncapped(reconnectCount - 1, 999) > MaxReconnectDelayMs

\* C10: after an init frame the registry is the frame's, no cell holds an observation and
\* bestHeight has one entry, 0, per chain of the frame.
C10_InitResets ==
  lastEvent.type = "init" =>
    /\ appChains # undefined
    /\ appChains.sources = lastEvent.sources
    /\ appChains.chains = lastEvent.chains
    /\ \A cell \in Cells(appChains) : ~HasState(appChains, cell[1], cell[2])
    /\ DOMAIN appChains.bestHeight = 0..(Len(lastEvent.chains) - 1)
    /\ \A i \in DOMAIN appChains.bestHeight : appChains.bestHeight[i] = 0

\* an init frame replaced a registry of another shape that held observations and best heights
C10_Witness ==
  /\ lastEvent.type = "init"
  /\ replaced # undefined
  /\ replaced.chains # appChains.chains
  /\ \E cell \in Cells(replaced) : HasState(replaced, cell[1], cell[2])
  /\ \E i \in DOMAIN replaced.bestHeight : replaced.bestHeight[i] > 0

\* the frame lacks a field its type requires, or is no frame at all
Malformed(msg) ==
  \/ msg.type \in {"undecodable", "init-no-chains"}
  \/ /\ msg.type = "update"
     /\ (msg.source = MissingString \/ msg.chain = MissingString
           \/ msg.height = MissingNumber \/ msg.hash = MissingString)

\* C11: a malformed frame leaves the registry, the cells and bestHeight as they were.
C11_MalformedFrameIsDropped ==
  [][Malformed(lastEvent') =>
       \/ appChains = undefined /\ appChains' = undefined
       \/ /\ appChains # undefined /\ appChains' # undefined
          /\ appChains'.sources = appChains.sources
          /\ appChains'.chains = appChains.chains
          /\ \A i \in StateIdxs : i >= 0 => appChains'.states[i] = appChains.states[i]
          /\ appChains'.bestHeight = appChains.bestHeight]_vars

\* C12: an init frame met with a missing or unparsable preference entry still installs the
\* frame's registry, with an empty preference set.
C12_LoadNeverRaises ==
  (/\ lastEvent.type = "init"
   /\ (GetItem(localStorage) = NoItem \/ JSONParseThrows(GetItem(localStorage).text)))
  => /\ appChains # undefined
     /\ appChains.sources = lastEvent.sources
     /\ appChains.chains = lastEvent.chains
     /\ appChains.enableSoundFor = {}

\* every id the registries of the model use
AllIds == {"A", "B", "A#", "X", "Y", "#X"}

\* C13: what a fresh load yields right after a restart is, pair by pair, what was enabled in
\* memory just before it, and the init frame that follows installs exactly that.
C13_RestartKeepsPreferences ==
  /\ (lastEvent.type = "reload" /\ replaced # undefined) =>
       \A s \in AllIds, c \in AllIds :
         (EnableSoundForIdx(s, c) \in LoadEnableSoundFor(localStorage))
           <=> (EnableSoundForIdx(s, c) \in replaced.enableSoundFor)
  /\ (lastEvent.type = "init" /\ appChains # undefined) =>
       appChains.enableSoundFor = LoadEnableSoundFor(localStorage)

\* the page was reloaded after two toggles, with a pair enabled
C13_Witness ==
  /\ lastEvent.type = "reload"
  /\ replaced # undefined
  /\ nToggles = 2
  /\ "A###X" \in replaced.enableSoundFor
  /\ "A###X" \in LoadEnableSoundFor(localStorage)

\* C14: a click flips the clicked pair and leaves the enabled state of every other pair of
\* ids (none of which contains '###') as it was.
C14_ToggleFlipsOnlyThatPair ==
  [][lastEvent'.type = "click" =>
       \A s \in AllIds, c \in AllIds :
         IF s = lastEvent'.source /\ c = lastEvent'.chain
           THEN GetEnableSoundFor(appChains', s, c) # GetEnableSoundFor(appChains, s, c)
           ELSE GetEnableSoundFor(appChains', s, c) = GetEnableSoundFor(appChains, s, c)]_vars

\* C15: every cell that holds an observation holds one whose frame named the cell's own
\* source and chain, and an update for a pair of the registry leaves that pair's cell filled.
C15_CellShowsOwnPair ==
  appChains # undefined =>
    /\ \A cell \in Cells(appChains) :
         HasState(appChains, cell[1], cell[2]) =>
           /\ appChains.states[GetIdx(appChains, cell[1], cell[2])].source = appChains.sources[cell[1] + 1].id
           /\ appChains.states[GetIdx(appChains, cell[1], cell[2])].chain = appChains.chains[cell[2] + 1].id
    /\ (lastEvent.type = "update" /\ KnownPair(appChains, lastEvent)) => UpdatedCell # undefined

\* C17: a frame of any other type leaves the registry, the cells, bestHeight, the preferences
\* and the retry counter as they were, and plays nothing.
C17_UnknownFrameChangesNothing ==
  [][lastEvent'.type = "other" =>
       /\ appChains' = appChains
       /\ localStorage' = localStorage
       /\ reconnectCount' = reconnectCount
       /\ played' = 0]_vars

\* C18: no step other than an init frame turns a cell that holds an observation into one
\* that holds none.
C18_ObservationStays ==
  [][(appChains # undefined /\ lastEvent'.type # "init") =>
       /\ appChains' # undefined
       /\ \A cell \in Cells(appChains) :
            HasState(appChains, cell[1], cell[2]) => HasState(appChains', cell[1], cell[2])]_vars

\* an update for one pair was applied while the cell of another pair held an observation
C18_Witness ==
  /\ UpdateApplied
  /\ KnownPair(appChains, lastEvent)
  /\ prevState = undefined
  /\ \E cell \in Cells(appChains) :
       /\ HasState(appChains, cell[1], cell[2])
       /\ GetIdx(appChains, cell[1], cell[2]) # GetIdxByIds(appChains, lastEvent.source, lastEvent.chain)

\* the key names no pair of the registry
Orphan(cs, key) ==
  cs = undefined \/ \A cell \in Cells(cs) :
                      key # EnableSoundForIdx(cs.sources[cell[1] + 1].id, cs.chains[cell[2] + 1].id)

\* C19: a persisted key that names no pair of the current registry is still persisted after
\* every step: init, update, click and reload.
C19_OrphanKeysStay ==
  [][\A key \in LoadEnableSoundFor(localStorage) :
       Orphan(appChains, key) => key \in LoadEnableSoundFor(localStorage')]_vars

\* a click saved the preferences while the persisted key of B and Y named no registry pair
C19_Witness ==
  /\ lastEvent.type = "click"
  /\ appChains # undefined
  /\ Orphan(appChains, "B###Y")
  /\ "B###Y" \in LoadEnableSoundFor(localStorage)
  /\ "B###Y" \in appChains.enableSoundFor

\* C20: after an update for a pair of the registry the pair's cell carries the frame's
\* lastCheckedTs, whether or not height or hash changed.
C20_LastCheckedIsTheFrames ==
  (UpdateApplied /\ KnownPair(appChains, lastEvent)) =>
    UpdatedCell.lastCheckedTs = lastEvent.lastCheckedTs

\* an update that changed neither height nor hash brought a later lastCheckedTs
C20_Witness ==
  /\ UpdateApplied
  /\ KnownPair(appChains, lastEvent)
  /\ prevState # undefined
  /\ ~Changed(prevState, lastEvent)
  /\ prevState.lastCheckedTs < lastEvent.lastCheckedTs
  /\ UpdatedCell.lastCheckedTs = lastEvent.lastCheckedTs

\* C16: a cell with an observation is at-chainhead exactly when its height is at most one
\* below the largest height reported for the chain since the init frame; with A at 100,
\* B at 99 is at-chainhead with diff -1, and B at 80 is not-at-chainhead with diff -20
\* while bestHeight of the chain is 100.
C16_AtHeadWithinOne ==
  appChains # undefined =>
    /\ \A cell \in Cells(appChains) :
         HasState(appChains, cell[1], cell[2]) =>
           /\ Classification(appChains, cell[1], cell[2]) \in {"at-chainhead", "not-at-chainhead"}
           /\ Classification(appChains, cell[1], cell[2]) = "at-chainhead"
                <=> appChains.states[GetIdx(appChains, cell[1], cell[2])].height
                      - maxSeen[appChains.chains[cell[2] + 1].id] >= 0 - 1
    /\ (/\ HasState(appChains, 0, 0) /\ appChains.states[GetIdx(appChains, 0, 0)].height = 100
        /\ HasState(appChains, 1, 0) /\ appChains.states[GetIdx(appChains, 1, 0)].height = 99)
       => /\ Diff(appChains, 1, 0) = 0 - 1
          /\ Classification(appChains, 1, 0) = "at-chainhead"
          /\ appChains.bestHeight[0] = 100
    /\ (/\ HasState(appChains, 0, 0) /\ appChains.states[GetIdx(appChains, 0, 0)].height = 100
        /\ HasState(appChains, 1, 0) /\ appChains.states[GetIdx(appChains, 1, 0)].height = 80)
       => /\ Diff(appChains, 1, 0) = 0 - 20
          /\ Classification(appChains, 1, 0) = "not-at-chainhead"
          /\ appChains.bestHeight[0] = 100

\* init, A at 100, B at 99, then B at 80
C16_Witness ==
  /\ nFrames = 4
  /\ UpdateApplied
  /\ lastEvent.source = "B" /\ lastEvent.height = 80
  /\ prevState # undefined /\ prevState.height = 99
  /\ appChains.states[GetIdx(appChains, 0, 0)] # undefined
  /\ appChains.states[GetIdx(appChains, 0, 0)].height = 100
  /\ Classification(appChains, 1, 0) = "not-at-chainhead"
  /\ appChains.bestHeight[0] = 100

\* C21: when the playback fails during an update, the frame's observation is in its cell,
\* bestHeight of its chain is at least the frame's height, the handler drew the table once
\* from that state, and the socket is still open for the next frame.
C21_PlaybackFailureIsSwallowed ==
  (UpdateApplied /\ KnownPair(appChains, lastEvent) /\ played = 1 /\ audio # "plays") =>
    /\ UpdatedCell = lastEvent
    /\ appChains.bestHeight[GetChainIdx(appChains, lastEvent.chain)] >= lastEvent.height
    /\ Len(rendered) = 1
    /\ rendered[1].chains = appChains
    /\ connState = "Connected"

\* an update raised bestHeight and called playSound() while play() throws
C21_Witness ==
  /\ UpdateApplied
  /\ KnownPair(appChains, lastEvent)
  /\ played = 1
  /\ audio = "throws"
  /\ lastEvent.height = 2
  /\ appChains.bestHeight[GetChainIdx(appChains, lastEvent.chain)] = 2
  /\ prevState # undefined

\* C22: a drawn cell with an observation is stale exactly when the whole seconds passed
\* since its firstSeenTs exceed max(3 * blockTimeSecs, 60); a cell without one is not stale.
C22_StaleBeyondThreshold ==
  \A i \in 1..Len(rendered) : \A cell \in Cells(rendered[i].chains) :
    LET cs == rendered[i].chains
        chainState == cs.states[GetIdx(cs, cell[1], cell[2])]
    IN IF chainState = undefined
         THEN ~rendered[i].stale[cell]
         ELSE now >= 1000 * chainState.firstSeenTs =>
                (rendered[i].stale[cell]
                   <=> (now \div 1000) - chainState.firstSeenTs
                         > Max(3 * cs.chains[cell[2] + 1].blockTimeSecs, 60))

\* a chain of block time 21 s drawn stale 64 s after its observation was first seen
C22_Witness ==
  /\ Len(rendered) = 1
  /\ rendered[1].chains.chains[1].blockTimeSecs = 21
  /\ rendered[1].chains.states[0] # undefined
  /\ now = 1000 * (rendered[1].chains.states[0].firstSeenTs + 64)
  /\ rendered[1].stale[<<0, 0>>]

\* C23: the delay the close handler schedules is computed from the counter after its
\* increment, min(60 s, 1 s * k * u) with u in [0.5, 1.5] for the k-th loss in a row, so it
\* is never below 0.5 s.
C23_DelayUsesIncrementedCount ==
  lastEvent.type = "close" =>
    /\ reconnectDelay >= JitterOffsetMilli
    /\ \E r \in RandomMilli : reconnectDelay = ReconnectDelay(reconnectCount, r)

\* C24: after a click the persisted mapping reads back as the preference set in memory, and
\* no step other than a click changes the preference set of app.chains.
C24_PreferencesChangeOnlyByToggle ==
  [][/\ lastEvent'.type = "click" =>
          LoadEnableSoundFor(localStorage') = appChains'.enableSoundFor
     /\ (lastEvent'.type # "click" /\ appChains # undefined /\ appChains' # undefined) =>
          appChains'.enableSoundFor = appChains.enableSoundFor]_vars

\* an init frame replaced a ChainsState whose preferences a click had changed
C24_Witness ==
  /\ lastEvent.type = "init"
  /\ nToggles = 1
  /\ replaced # undefined
  /\ appChains # undefined
  /\ replaced.enableSoundFor # {}
  /\ appChains.enableSoundFor = replaced.enableSoundFor

\* C25: the handler of an init or update frame draws the table once, from the state the
\* frame left: the cell of an update for a known pair shows that frame, and is at-chainhead
\* when the frame's height is the largest reported for its chain, that frame included.
C25_RenderFollowsMutation ==
  (lastEvent.type \in {"init", "update"} /\ appChains # undefined) =>
    /\ Len(rendered) = 1
    /\ rendered[1].chains = appChains
    /\ (lastEvent.type = "init") =>
         /\ rendered[1].chains.sources = lastEvent.sources
         /\ \A cell \in Cells(appChains) : rendered[1].class[cell] = "missing-state"
    /\ (lastEvent.type = "update" /\ KnownPair(appChains, lastEvent)) =>
         LET sourceIdx == FindIndex(appChains.sources, lastEvent.source)
             chainIdx == FindIndex(appChains.chains, lastEvent.chain)
         IN /\ rendered[1].chains.states[GetIdx(appChains, sourceIdx, chainIdx)] = lastEvent
            /\ lastEvent.height >= maxSeen[lastEvent.chain] =>
                 rendered[1].class[<<sourceIdx, chainIdx>>] = "at-chainhead"

\* an update raised bestHeight over the observation that was there, and was drawn
C25_Witness ==
  /\ UpdateApplied
  /\ KnownPair(appChains, lastEvent)
  /\ prevState # undefined
  /\ prevState.height = 1
  /\ lastEvent.height = 2
  /\ maxSeen[lastEvent.chain] = 2
  /\ Len(rendered) = 1
  /\ rendered[1].class[<<FindIndex(appChains.sources, lastEvent.source),
                         FindIndex(appChains.chains, lastEvent.chain)>>] = "at-chainhead"

\* C27: sockets whose close event is still to come and reconnect timers still to run are
\* never more than one in total.
C27_OneStreamOrTimer ==
  /\ sockets + timers <= 1
  /\ sockets >= 0 /\ timers >= 0
  /\ (connState = "Disconnected") <=> (sockets = 0 /\ timers = 0)

\* the timer of the second loss in a row is pending and no socket is left
C27_Witness ==
  /\ lastEvent.type = "close"
  /\ reconnectCount = 2
  /\ timers = 1
  /\ sockets = 0

\* C28: the error handler neither counts nor schedules, nothing runs between it and the close
\* event of the same socket, and that close event counts once and schedules one timer.
C28_ErrorThenCloseIsOneLoss ==
  [][/\ lastEvent'.type = "error" =>
          /\ reconnectCount' = reconnectCount
          /\ timers' = timers
          /\ sockets' = sockets
     /\ connState' = "Closing" => lastEvent'.type = "error"
     /\ (connState = "Closing" /\ lastEvent'.type = "close") =>
          /\ lastEvent.type = "error"
          /\ reconnectCount' = reconnectCount + 1
          /\ timers' = timers + 1
          /\ sockets' = sockets - 1]_vars

\* a socket that had delivered no loss before raised an error and then closed
C28_Witness ==
  /\ lastEvent.type = "close"
  /\ lastEvent.afterError
  /\ reconnectCount = 1
  /\ timers = 1

\* C29: an update for a pair of the registry leaves the cell of every other pair, the
\* bestHeight of every other chain, the registry and the preferences as they were.
C29_UpdateTouchesOnlyItsPair ==
  [][(lastEvent'.type = "update" /\ appChains # undefined /\ KnownPair(appChains, lastEvent')) =>
       LET sourceIdx == FindIndex(appChains.sources, lastEvent'.source)
           chainIdx == FindIndex(appChains.chains, lastEvent'.chain)
       IN /\ \A cell \in Cells(appChains) :
               cell # <<sourceIdx, chainIdx>> =>
                 appChains'.states[GetIdx(appChains', cell[1], cell[2])]
                   = appChains.states[GetIdx(appChains, cell[1], cell[2])]
          /\ \A j \in DOMAIN appChains.bestHeight :
               j # chainIdx => appChains'.bestHeight[j] = appChains.bestHeight[j]
          /\ appChains'.sources = appChains.sources
          /\ appChains'.chains = appChains.chains
          /\ appChains'.enableSoundFor = appChains.enableSoundFor]_vars

\* an update filled the cell of its pair while another pair's cell and another chain's
\* bestHeight were set
C29_Witness ==
  /\ UpdateApplied
  /\ KnownPair(appChains, lastEvent)
  /\ prevState = undefined
  /\ \E cell \in Cells(appChains) :
       /\ cell[2] # FindIndex(appChains.chains, lastEvent.chain)
       /\ HasState(appChains, cell[1], cell[2])
       /\ appChains.bestHeight[cell[2]] > 0

\* C30: the error, close, timer and open events leave app.chains (registry, cells,
\* bestHeight, preferences) and the persisted preferences as they were, and an update on
\* the next socket finds the observation stored before the loss.
C30_LossKeepsState ==
  [][/\ lastEvent'.type \in {"error", "close", "timeout", "open"} =>
          /\ appChains' = appChains
          /\ localStorage' = localStorage
     /\ (lastEvent.type = "open" /\ lastEvent'.type = "update" /\ appChains # undefined) =>
          /\ prevState' = PrevStateOf(appChains, lastEvent'.source, lastEvent'.chain)
          /\ appChains'.sources = appChains.sources
          /\ appChains'.chains = appChains.chains]_vars

\* after a loss the next socket is open and the observation and bestHeight are still there
C30_Witness ==
  /\ lastEvent.type = "open"
  /\ reconnectCount = 1
  /\ appChains # undefined
  /\ \E cell \in Cells(appChains) :
       /\ HasState(appChains, cell[1], cell[2])
       /\ appChains.bestHeight[cell[2]] > 0

\* C31: bestHeight has exactly one entry per chain of the registry, and the handler of an
\* init frame either leaves app.chains whole as it was or installs the frame's registry with
\* empty cells and zero best heights.
C31_InitIsAllOrNothing ==
  [][/\ appChains' # undefined =>
          DOMAIN appChains'.bestHeight = 0..(Len(appChains'.chains) - 1)
     /\ (lastEvent'.type \in {"init", "init-no-chains"} /\ nFrames' = nFrames + 1) =>
          \/ appChains' = appChains
          \/ /\ lastEvent'.type = "init"
             /\ appChains' # undefined
             /\ appChains'.sources = lastEvent'.sources
             /\ appChains'.chains = lastEvent'.chains
             /\ \A cell \in Cells(appChains') : ~HasState(appChains', cell[1], cell[2])
             /\ \A j \in DOMAIN appChains'.bestHeight : appChains'.bestHeight[j] = 0]_vars

\* an init frame for another registry met an unparsable entry; the registry, an observation
\* and its bestHeight from before are in place
C31_Witness ==
  /\ lastEvent.type = "init"
  /\ LoadThrows(localStorage)
  /\ appChains # undefined
  /\ appChains.chains # lastEvent.chains
  /\ \E cell \in Cells(appChains) :
       /\ HasState(appChains, cell[1], cell[2])
       /\ appChains.bestHeight[cell[2]] > 0

\* C32: an update frame that arrives while no init frame has been processed leaves
\* app.chains, the persisted preferences and the retry counter as they were and plays and
\* draws nothing.
C32_UpdateBeforeInitChangesNothing ==
  [][(lastEvent'.type = "update" /\ nFrames' = nFrames + 1 /\ appChains = undefined) =>
       /\ appChains' = undefined
       /\ localStorage' = localStorage
       /\ reconnectCount' = reconnectCount
       /\ played' = 0
       /\ rendered' = <<>>]_vars

\* C33: no drawn cell is just-increased and stale at once.
C33_NeverFreshAndStale ==
  \A i \in 1..Len(rendered) : \A cell \in Cells(rendered[i].chains) :
    ~(rendered[i].justIncreased[cell] /\ rendered[i].stale[cell])

\* a chain of block time 0 was drawn 24 s after its observation was first seen:
\* just-increased and not stale
C33_Witness ==
  /\ Len(rendered) = 1
  /\ rendered[1].chains.chains[1].blockTimeSecs = 0
  /\ rendered[1].chains.states[0] # undefined
  /\ rendered[1].chains.states[0].firstSeenTs = 0
  /\ now = 24000
  /\ rendered[1].justIncreased[<<0, 0>>]
  /\ ~rendered[1].stale[<<0, 0>>]

=============================================================================
